---- MODULE Spec2Model ----
(***************************************************************************)
(* Model of src/src/weather_dashboard.py: the WeatherDashboard class       *)
(* (create_bucket_if_not_exists, fetch_weather, save_to_s3) and main().    *)
(*                                                                         *)
(* Python values are modelled as tagged records: None is [none |-> TRUE],  *)
(* a number [num |-> n], a string [str |-> s], a list [arr |-> <<..>>] and *)
(* a dict [obj |-> <<..>>], a sequence of <<key, value>> pairs with unique *)
(* keys in insertion order.  Environment variables are strings, with the   *)
(* string Unset standing for a variable that is not set (os.getenv gives   *)
(* None).                                                                  *)
(***************************************************************************)
EXTENDS Integers, Sequences, FiniteSets, TLC

VARIABLES
    env_region,     \* os.environ AWS_REGION (Unset when absent)
    api_key,        \* self.api_key
    bucket_name,    \* self.bucket_name
    aws_region,     \* self.aws_region
    bucketExists,   \* the storage backend: does the bucket exist
    objects,        \* the storage backend: set of [Key, Body] objects stored
    s3calls,        \* calls made on self.s3_client, in order: [req, ok]
    httpRequests,   \* calls of requests.get, in order
    pc,             \* position of the process
    idx,            \* index in cities of the city of the current iteration
    weather_data,   \* the local weather_data (aliased by save_to_s3's parameter)
    fetched,        \* what fetch_weather returned for each city so far
    fetchStarted,   \* the cities fetch_weather was called with, in order
    saveCalls,      \* the calls of save_to_s3: [city, arg, ret]
    provisionCalls, \* number of calls of create_bucket_if_not_exists
    exit_status     \* exit status of the process (-1 while it runs)

vars == <<env_region, api_key, bucket_name, aws_region, bucketExists, objects,
          s3calls, httpRequests, pc, idx, weather_data, fetched, fetchStarted,
          saveCalls, provisionCalls, exit_status>>

-----------------------------------------------------------------------------
(* Bounds *)

\* datetime.now() returns one of the seconds ClockBase .. ClockBase + MaxClock
MaxClock == 1

\* 09:05:07, in seconds since midnight
ClockBase == 9 * 3600 + 5 * 60 + 7

-----------------------------------------------------------------------------
(* Python values *)

Unset == "<unset>"

PyNone == [none |-> TRUE]
Num(n) == [num |-> n]
Str(s) == [str |-> s]
Arr(items) == [arr |-> items]
Obj(pairs) == [obj |-> pairs]

IsObj(v) == "obj" \in DOMAIN v
IsArr(v) == "arr" \in DOMAIN v

\* The result of a failed subscription (KeyError, IndexError, TypeError)
Fault == [fault |-> TRUE]

\* Python truth value of an environment string: None and '' are false
TruthyStr(s) == s # Unset /\ s # ""

\* Python truth value of a value: None, 0, '', [] and {} are false
Truthy(v) ==
    IF "none" \in DOMAIN v THEN FALSE
    ELSE IF "num" \in DOMAIN v THEN v.num # 0
    ELSE IF "str" \in DOMAIN v THEN v.str # ""
    ELSE IF "arr" \in DOMAIN v THEN Len(v.arr) > 0
    ELSE IF "obj" \in DOMAIN v THEN Len(v.obj) > 0
    ELSE FALSE

\* os.getenv(name, default)
Getenv(value, default) == IF value = Unset THEN default ELSE value

HasKey(pairs, k) == \E j \in 1..Len(pairs) : pairs[j][1] = k

GetKey(pairs, k) == pairs[CHOOSE j \in 1..Len(pairs) : pairs[j][1] = k][2]

\* d[k] = v on the pairs of a dict: an existing key keeps its place
DictSet(pairs, k, v) ==
    IF HasKey(pairs, k)
    THEN [j \in 1..Len(pairs) |->
             IF pairs[j][1] = k THEN <<k, v>> ELSE pairs[j]]
    ELSE Append(pairs, <<k, v>>)

\* v[k] for a string key: a dict that has the key, otherwise a fault
Subscript(v, k) ==
    IF IsObj(v) /\ HasKey(v.obj, k) THEN GetKey(v.obj, k) ELSE Fault

\* v[n] for an index n >= 0 (0-based): a list long enough, otherwise a fault
Index(v, n) ==
    IF IsArr(v) /\ n + 1 <= Len(v.arr) THEN v.arr[n + 1] ELSE Fault

-----------------------------------------------------------------------------
(* json.dumps and the json.loads of a reader, on a text of tokens *)

\* A punctuation token of the JSON text
Tok(c) == [p |-> c]

RECURSIVE Dumps(_), DumpsPairs(_), DumpsItems(_)

\* json.dumps(v): the text of a value, as its sequence of tokens
Dumps(v) ==
    IF IsObj(v) THEN <<Tok("{")>> \o DumpsPairs(v.obj) \o <<Tok("}")>>
    ELSE IF IsArr(v) THEN <<Tok("[")>> \o DumpsItems(v.arr) \o <<Tok("]")>>
    ELSE IF "none" \in DOMAIN v THEN <<Tok("null")>>
    ELSE <<v>>

DumpsPairs(pairs) ==
    IF Len(pairs) = 0 THEN <<>>
    ELSE <<Str(pairs[1][1]), Tok(":")>> \o Dumps(pairs[1][2])
         \o (IF Len(pairs) > 1 THEN <<Tok(",")>> \o DumpsPairs(Tail(pairs)) ELSE <<>>)

DumpsItems(items) ==
    IF Len(items) = 0 THEN <<>>
    ELSE Dumps(items[1])
         \o (IF Len(items) > 1 THEN <<Tok(",")>> \o DumpsItems(Tail(items)) ELSE <<>>)

RECURSIVE ParseValue(_, _), ParseMembers(_, _, _), ParseElements(_, _, _)

\* The value that starts at token i of text t, and the index after it
ParseValue(t, i) ==
    IF t[i] = Tok("{")
    THEN IF t[i + 1] = Tok("}") THEN [v |-> Obj(<<>>), n |-> i + 2]
         ELSE ParseMembers(t, i + 1, <<>>)
    ELSE IF t[i] = Tok("[")
    THEN IF t[i + 1] = Tok("]") THEN [v |-> Arr(<<>>), n |-> i + 2]
         ELSE ParseElements(t, i + 1, <<>>)
    ELSE IF t[i] = Tok("null") THEN [v |-> PyNone, n |-> i + 1]
    ELSE [v |-> t[i], n |-> i + 1]

\* The members of an object from the key at token i on: a repeated key keeps
\* its last value
ParseMembers(t, i, acc) ==
    LET r == ParseValue(t, i + 2)
        acc2 == DictSet(acc, t[i].str, r.v)
    IN IF t[r.n] = Tok(",") THEN ParseMembers(t, r.n + 1, acc2)
       ELSE [v |-> Obj(acc2), n |-> r.n + 1]

ParseElements(t, i, acc) ==
    LET r == ParseValue(t, i)
        acc2 == Append(acc, r.v)
    IN IF t[r.n] = Tok(",") THEN ParseElements(t, r.n + 1, acc2)
       ELSE [v |-> Arr(acc2), n |-> r.n + 1]

\* json.loads(t)
Loads(t) == ParseValue(t, 1).v

-----------------------------------------------------------------------------
(* The clock *)

\* The values datetime.now() may return: seconds since midnight of 2024-03-01
ClockValues == ClockBase .. (ClockBase + MaxClock)

Pad2(n) == IF n < 10 THEN "0" \o ToString(n) ELSE ToString(n)

\* now.strftime('%Y%m%d-%H%M%S')
Strftime(now) ==
    "20240301-" \o Pad2(now \div 3600) \o Pad2((now \div 60) % 60) \o Pad2(now % 60)

-----------------------------------------------------------------------------
(* Configuration and the outcomes of the external calls *)

cities == <<"Philadelphia", "Seattle", "New York">>

DefaultRegion == "eu-west-2"

\* The values of OPEN_WEATHER_API_KEY, AWS_BUCKET_NAME and AWS_REGION
ApiKeyValues == {Unset, "", "key"}
BucketNameValues == {Unset, "", "weather-bucket"}
RegionValues == {Unset, "us-east-1", "ap-south-1"}

MainFields ==
    Obj(<< <<"temp", Num(72)>>, <<"feels_like", Num(70)>>, <<"humidity", Num(40)>> >>)

WeatherList == Arr(<< Obj(<< <<"description", Str("clear sky")>> >>) >>)

\* Bodies the weather API may answer with on a success status
GoodBody == Obj(<< <<"main", MainFields>>, <<"weather", WeatherList>> >>)
BodyWithTimestamp ==
    Obj(<< <<"timestamp", Str("provider")>>, <<"main", MainFields>>,
           <<"weather", WeatherList>> >>)
BodyNoHumidity ==
    Obj(<< <<"main", Obj(<< <<"temp", Num(72)>>, <<"feels_like", Num(70)>> >>)>>,
           <<"weather", WeatherList>> >>)
BodyNoWeather == Obj(<< <<"main", MainFields>>, <<"weather", Arr(<<>>)>> >>)
BodyEmpty == Obj(<<>>)

Bodies == {GoodBody, BodyWithTimestamp, BodyNoHumidity, BodyNoWeather, BodyEmpty}

\* Outcomes of requests.get, raise_for_status and response.json: a transport
\* error, a non-success status, a success status with a body that is not JSON
\* (requests.exceptions.JSONDecodeError, a RequestException), or a success
\* status with a JSON body
HttpOutcomes ==
    {[kind |-> "transport_error"], [kind |-> "http_error"], [kind |-> "not_json"]}
    \cup {[kind |-> "ok", body |-> b] : b \in Bodies}

-----------------------------------------------------------------------------
(* WeatherDashboard.create_bucket_if_not_exists *)

\* "if not self.bucket_name"
BucketNameMissing(bucket) == ~TruthyStr(bucket)

\* The head_bucket call
HeadBucketRequest(bucket) == [op |-> "head_bucket", Bucket |-> bucket]

\* Variant: the LocationConstraint is sent in every region
CreateBucketRequest_AlwaysConstraint(bucket, region) ==
    [op |-> "create_bucket", Bucket |-> bucket, LocationConstraint |-> region]

\* The create_bucket call: a CreateBucketConfiguration with the
\* LocationConstraint in every region but us-east-1
CreateBucketRequest(bucket, region) ==
    IF region # "us-east-1"
    THEN [op |-> "create_bucket", Bucket |-> bucket, LocationConstraint |-> region]
    ELSE [op |-> "create_bucket", Bucket |-> bucket]

\* Variant: the bucket is created whatever the probe answered
ProbeNeedsCreate_Always(headOk) == TRUE

\* The except branch of the probe: the bucket is created when head_bucket raised
ProbeNeedsCreate(headOk) == ~headOk

\* A call on the client with its outcome: it returned (ok) or raised
Call(req, ok) == [req |-> req, ok |-> ok]

\* The calls create_bucket_if_not_exists makes on the client, given whether
\* head_bucket and create_bucket return
ProvisionCalls(bucket, region, headOk, createOk) ==
    IF BucketNameMissing(bucket) THEN <<>>
    ELSE IF ProbeNeedsCreate(headOk)
         THEN <<Call(HeadBucketRequest(bucket), headOk),
                Call(CreateBucketRequest(bucket, region), createOk)>>
         ELSE <<Call(HeadBucketRequest(bucket), headOk)>>

\* head_bucket returns only for a bucket that exists, and may raise for any
\* reason (not found, permission, network)
HeadOutcomes == IF bucketExists THEN BOOLEAN ELSE {FALSE}

\* main: dashboard.create_bucket_if_not_exists().  Every exception of the two
\* calls is caught inside the method.
CreateBucketIfNotExists ==
    /\ pc = "provision"
    /\ provisionCalls' = provisionCalls + 1
    /\ \E headOk \in HeadOutcomes, createOk \in BOOLEAN :
          LET calls == ProvisionCalls(bucket_name, aws_region, headOk, createOk)
          IN /\ s3calls' = s3calls \o calls
             /\ bucketExists' =
                   IF \E j \in 1..Len(calls) :
                          calls[j].req.op = "create_bucket" /\ calls[j].ok
                   THEN TRUE ELSE bucketExists
    /\ pc' = "loop"
    /\ UNCHANGED <<env_region, api_key, bucket_name, aws_region, objects,
                   httpRequests, idx, weather_data, fetched, fetchStarted,
                   saveCalls, exit_status>>

-----------------------------------------------------------------------------
(* WeatherDashboard.fetch_weather *)

\* Variant: "if self.api_key is None", an empty key counts as configured
ApiKeyMissing_NoneOnly(key) == key = Unset

\* "if not self.api_key"
ApiKeyMissing(key) == ~TruthyStr(key)

\* The requests.get call
HttpRequest(city, key) ==
    [url |-> "http://api.openweathermap.org/data/2.5/weather",
     q |-> city, appid |-> key, units |-> "imperial"]

\* fetch_weather(city) given the outcome of the request: the requests issued
\* and the value returned (None for every RequestException)
FetchWeather(key, city, outcome) ==
    IF ApiKeyMissing(key)
    THEN [requests |-> <<>>, ret |-> PyNone]
    ELSE [requests |-> <<HttpRequest(city, key)>>,
          ret |-> IF outcome.kind = "ok" THEN outcome.body ELSE PyNone]

\* Variant: the save_to_s3 call placed after the if block instead of inside it
AfterFetch_SaveAnyway(data) == IF Truthy(data) THEN "extract" ELSE "save"

\* "if weather_data" in main: the position after fetch_weather returned
AfterFetch(data) == IF Truthy(data) THEN "extract" ELSE "next"

\* The position after an iteration of the loop
NextCity(i) == i + 1

\* main: weather_data = dashboard.fetch_weather(city), and the test of it
FetchWeatherStep ==
    /\ pc = "loop"
    /\ idx <= Len(cities)
    /\ fetchStarted' = Append(fetchStarted, cities[idx])
    /\ \E outcome \in HttpOutcomes :
          LET r == FetchWeather(api_key, cities[idx], outcome)
          IN /\ httpRequests' = httpRequests \o r.requests
             /\ weather_data' = r.ret
             /\ fetched' = Append(fetched, r.ret)
             /\ IF AfterFetch(r.ret) = "next"
                THEN pc' = "loop" /\ idx' = NextCity(idx)
                ELSE pc' = AfterFetch(r.ret) /\ idx' = idx
    /\ UNCHANGED <<env_region, api_key, bucket_name, aws_region, bucketExists,
                   objects, s3calls, saveCalls, provisionCalls, exit_status>>

\* main: the four subscriptions of weather_data; a fault if one of them raises
Extract(data) ==
    LET main == Subscript(data, "main")
        temp == Subscript(main, "temp")
        feels_like == Subscript(main, "feels_like")
        humidity == Subscript(main, "humidity")
        description == Subscript(Index(Subscript(data, "weather"), 0), "description")
    IN IF Fault \in {temp, feels_like, humidity, description} THEN Fault
       ELSE [temp |-> temp, feels_like |-> feels_like, humidity |-> humidity,
             description |-> description]

\* main: the extraction of the display fields.  No handler surrounds it: an
\* exception ends the process with a traceback and exit status 1.
ExtractFields ==
    /\ pc = "extract"
    /\ IF Extract(weather_data) = Fault
       THEN pc' = "aborted" /\ exit_status' = 1
       ELSE pc' = "save" /\ exit_status' = exit_status
    /\ UNCHANGED <<env_region, api_key, bucket_name, aws_region, bucketExists,
                   objects, s3calls, httpRequests, idx, weather_data, fetched,
                   fetchStarted, saveCalls, provisionCalls>>

-----------------------------------------------------------------------------
(* WeatherDashboard.save_to_s3 *)

\* Variant: "if weather_data is None", an empty payload goes on
PayloadMissing_NoneOnly(data) == data = PyNone

\* "if not weather_data"
PayloadMissing(data) == ~Truthy(data)

\* file_name
FileName(city, timestamp) == <<"weather-data/", city, "-", timestamp, ".json">>

\* Variant: the payload replaced by a dict that holds the timestamp alone
InjectTimestamp_Alone(data, timestamp) == Obj(<< <<"timestamp", Str(timestamp)>> >>)

\* weather_data['timestamp'] = timestamp, on a dict
InjectTimestamp(data, timestamp) == Obj(DictSet(data.obj, "timestamp", Str(timestamp)))

\* The put_object call
PutObjectRequest(bucket, file_name, data) ==
    [op |-> "put_object", Bucket |-> bucket, Key |-> file_name,
     Body |-> Dumps(data), ContentType |-> "application/json"]

\* Variant: the except branch returns True as well
SaveResult_AlwaysTrue(putOk) == TRUE

\* The value save_to_s3 returns once put_object returned or raised
SaveResult(putOk) == putOk

\* save_to_s3(weather_data, city) given the clock and the outcome of the put:
\* the value returned, the payload afterwards and the calls made on the client.
\* The item assignment on a payload that is not a dict raises inside the try.
SaveToS3(bucket, data, city, now, putOk) ==
    IF PayloadMissing(data)
    THEN [ret |-> FALSE, data |-> data, calls |-> <<>>, stored |-> {}]
    ELSE IF ~IsObj(data)
    THEN [ret |-> FALSE, data |-> data, calls |-> <<>>, stored |-> {}]
    ELSE LET timestamp == Strftime(now)
             file_name == FileName(city, timestamp)
             stamped == InjectTimestamp(data, timestamp)
             req == PutObjectRequest(bucket, file_name, stamped)
         IN [ret |-> SaveResult(putOk), data |-> stamped,
             calls |-> <<Call(req, putOk)>>,
             stored |-> IF putOk THEN {[Key |-> req.Key, Body |-> req.Body]}
                        ELSE {}]

\* put_object stores the object only in a bucket that exists, under a valid
\* bucket name; it may raise for any reason
PutOutcomes == IF bucketExists /\ TruthyStr(bucket_name) THEN BOOLEAN ELSE {FALSE}

\* The backend after the call: an object stored replaces the one of the same key
Store(objs, stored) ==
    {o \in objs : \A n \in stored : n.Key # o.Key} \cup stored

\* main: success = dashboard.save_to_s3(weather_data, city)
SaveStep ==
    /\ pc = "save"
    /\ \E now \in ClockValues, putOk \in PutOutcomes :
          LET r == SaveToS3(bucket_name, weather_data, cities[idx], now, putOk)
          IN /\ weather_data' = r.data
             /\ s3calls' = s3calls \o r.calls
             /\ objects' = Store(objects, r.stored)
             /\ saveCalls' = Append(saveCalls,
                    [city |-> cities[idx], arg |-> weather_data, ret |-> r.ret])
    /\ pc' = "loop"
    /\ idx' = NextCity(idx)
    /\ UNCHANGED <<env_region, api_key, bucket_name, aws_region, bucketExists,
                   httpRequests, fetched, fetchStarted, provisionCalls,
                   exit_status>>

\* main returns after the last city: the process exits with status 0
Finish ==
    /\ pc = "loop"
    /\ idx > Len(cities)
    /\ pc' = "done"
    /\ exit_status' = 0
    /\ UNCHANGED <<env_region, api_key, bucket_name, aws_region, bucketExists,
                   objects, s3calls, httpRequests, idx, weather_data, fetched,
                   fetchStarted, saveCalls, provisionCalls>>

-----------------------------------------------------------------------------
(* The run of main *)

\* WeatherDashboard.__init__, and the backend as the run finds it
Config ==
    /\ env_region \in RegionValues
    /\ api_key \in ApiKeyValues
    /\ bucket_name \in BucketNameValues
    /\ aws_region = Getenv(env_region, DefaultRegion)
    /\ bucketExists \in BOOLEAN
    /\ objects = {}
    /\ s3calls = <<>>
    /\ httpRequests = <<>>
    /\ fetched = <<>>
    /\ fetchStarted = <<>>
    /\ saveCalls = <<>>
    /\ provisionCalls = 0
    /\ exit_status = -1

Init ==
    /\ Config
    /\ pc = "provision"
    /\ idx = 1
    /\ weather_data = PyNone

Next ==
    \/ CreateBucketIfNotExists
    \/ FetchWeatherStep
    \/ ExtractFields
    \/ SaveStep
    \/ Finish

Spec == Init /\ [][Next]_vars

-----------------------------------------------------------------------------
(* save_to_s3 called on its own, with any payload *)

\* The payloads a caller may pass
UnitPayloads == Bodies \cup {PyNone, Arr(<<>>), Arr(<<Num(1)>>)}

InitSave ==
    /\ Config
    /\ pc = "unit_call"
    /\ idx \in 1..Len(cities)
    /\ weather_data \in UnitPayloads

\* dashboard.save_to_s3(weather_data, city)
UnitSaveToS3 ==
    /\ pc = "unit_call"
    /\ \E now \in ClockValues, putOk \in PutOutcomes :
          LET r == SaveToS3(bucket_name, weather_data, cities[idx], now, putOk)
          IN /\ weather_data' = r.data
             /\ s3calls' = s3calls \o r.calls
             /\ objects' = Store(objects, r.stored)
             /\ saveCalls' = Append(saveCalls,
                    [city |-> cities[idx], arg |-> weather_data, ret |-> r.ret])
    /\ pc' = "unit_returned"
    /\ UNCHANGED <<env_region, api_key, bucket_name, aws_region, bucketExists,
                   httpRequests, idx, fetched, fetchStarted, provisionCalls,
                   exit_status>>

NextSave == UnitSaveToS3

SpecSave == InitSave /\ [][NextSave]_vars

-----------------------------------------------------------------------------
(* Properties *)

Terminated == pc \in {"done", "aborted"}

IsPut(c) == c.req.op = "put_object"
IsHead(c) == c.req.op = "head_bucket"
IsCreate(c) == c.req.op = "create_bucket"

Positions(Is(_)) == {j \in 1..Len(s3calls) : Is(s3calls[j])}

\* The city of a put_object call, from its key
KeyCity(c) == c.req.Key[2]

\* C1: a city whose fetch_weather returned None (no API key, a transport error
\* or a non-success status) gets no save_to_s3 call and no put_object call.
C1_NoArchiveAfterFailedFetch ==
    \A j \in 1..Len(fetched) :
        fetched[j] = PyNone =>
            /\ \A k \in 1..Len(saveCalls) : saveCalls[k].city # cities[j]
            /\ \A k \in Positions(IsPut) : KeyCity(s3calls[k]) # cities[j]

\* A run that ended in which a request was made for a city and failed, while
\* another city was archived
C1_Witness ==
    /\ pc = "done"
    /\ \E j \in 1..Len(fetched) : fetched[j] = PyNone
    /\ Len(httpRequests) = Len(cities)
    /\ Positions(IsPut) # {}

\* C2: the cities are attempted in list order, and when the run has ended
\* every city of the list has been attempted, whatever happened to the cities
\* before it.
C2_EveryCityAttempted ==
    /\ Len(fetchStarted) <= Len(cities)
    /\ \A j \in 1..Len(fetchStarted) : fetchStarted[j] = cities[j]
    /\ Terminated => fetchStarted = cities

\* C3: a run that ends does so with exit status 0, whatever the outcomes of
\* the probe, the create call, the fetches (a response without the expected
\* fields included) and the put calls.
C3_ExitStatusZero == Terminated => exit_status = 0

\* C4: create_bucket_if_not_exists is called at most once; it makes at most
\* one head_bucket call and at most one create_bucket call; a create_bucket
\* call comes right after a head_bucket call that failed, and none is made
\* when head_bucket confirmed the bucket.
C4_ProvisionAtMostOnce ==
    /\ provisionCalls <= 1
    /\ Cardinality(Positions(IsHead)) <= 1
    /\ Cardinality(Positions(IsCreate)) <= 1
    /\ \A j \in Positions(IsCreate) :
          \E k \in Positions(IsHead) : k < j /\ ~s3calls[k].ok
    /\ (\E k \in Positions(IsHead) : s3calls[k].ok) => Positions(IsCreate) = {}

\* A run of all three cities with a failed probe followed by a create call
C4_Witness ==
    /\ pc = "done"
    /\ Len(fetchStarted) = Len(cities)
    /\ Positions(IsCreate) # {}
    /\ Positions(IsPut) # {}

\* C5: a create_bucket call carries no LocationConstraint when the configured
\* region is us-east-1, and otherwise a LocationConstraint equal to the
\* configured region, which is eu-west-2 when AWS_REGION is not set.
C5_LocationConstraint ==
    \A j \in Positions(IsCreate) :
        LET req == s3calls[j].req
            configured == IF env_region = Unset THEN "eu-west-2" ELSE env_region
        IN IF configured = "us-east-1"
           THEN "LocationConstraint" \notin DOMAIN req
           ELSE /\ "LocationConstraint" \in DOMAIN req
                /\ req.LocationConstraint = configured

\* A create call made with AWS_REGION not set
C5_Witness ==
    /\ env_region = Unset
    /\ \E j \in Positions(IsCreate) : s3calls[j].req.LocationConstraint = "eu-west-2"

\* C6: with the API key absent or empty, every fetch_weather returns None, no
\* HTTP request is issued and no put_object call is made.
C6_NoKeyNoRequest ==
    (api_key = Unset \/ api_key = "") =>
        /\ httpRequests = <<>>
        /\ Positions(IsPut) = {}
        /\ \A j \in 1..Len(fetched) : fetched[j] = PyNone

\* A complete run with an empty API key
C6_Witness ==
    /\ api_key = ""
    /\ pc = "done"
    /\ Len(fetched) = Len(cities)

\* C7: save_to_s3 called with a null or empty payload returns False, makes no
\* call on the client, stores nothing and leaves the payload as it was.
C7_EmptyPayloadNoEffect ==
    pc = "unit_returned" =>
        LET c == saveCalls[1]
        IN c.arg \in {PyNone, Obj(<<>>), Arr(<<>>)} =>
              /\ c.ret = FALSE
              /\ s3calls = <<>>
              /\ objects = {}
              /\ weather_data = c.arg

\* save_to_s3 has returned from a call with the empty dict, on a bucket where
\* a put would have been possible
C7_Witness ==
    /\ pc = "unit_returned"
    /\ saveCalls[1].arg = Obj(<<>>)
    /\ bucketExists
    /\ TruthyStr(bucket_name)

\* The object stored by a successful save_to_s3 call c, read back and parsed,
\* has the timestamp of its key and the fields of the payload named by Kept
RoundTrip(c, Kept(_)) ==
    \E o \in objects :
        /\ o.Key[2] = c.city
        /\ LET parsed == Loads(o.Body)
           IN /\ IsObj(parsed)
              /\ Subscript(parsed, "timestamp") = Str(o.Key[4])
              /\ \A j \in 1..Len(c.arg.obj) :
                    Kept(c.arg.obj[j][1]) =>
                        Subscript(parsed, c.arg.obj[j][1]) = c.arg.obj[j][2]

AnyField(k) == TRUE
NotTimestamp(k) == k # "timestamp"

\* C8 as stated: the stored object, read back and parsed, has the timestamp of
\* its key and every field of the fetched payload with its original value, a
\* field named timestamp included.
C8_RoundTripEveryField ==
    \A k \in 1..Len(saveCalls) :
        saveCalls[k].ret = TRUE => RoundTrip(saveCalls[k], AnyField)

\* C8 amended: the stored object, read back and parsed, has the timestamp of
\* its key and every field of the fetched payload other than timestamp with its
\* original value.
C8_RoundTripOtherFields ==
    \A k \in 1..Len(saveCalls) :
        saveCalls[k].ret = TRUE => RoundTrip(saveCalls[k], NotTimestamp)

\* A payload that came with a timestamp field of its own was stored
C8_Witness ==
    \E k \in 1..Len(saveCalls) :
        /\ saveCalls[k].ret = TRUE
        /\ saveCalls[k].arg = BodyWithTimestamp

\* C9 as stated: a put_object call is issued only when the bucket exists.
C9_PutOnlyWhenBucketExists ==
    Positions(IsPut) # {} => bucketExists

\* C9 amended: put_object calls are issued after create_bucket_if_not_exists
\* has run, whether or not the bucket exists; an object is stored, and
\* save_to_s3 returns True, only when the bucket exists.
C9_StoredOnlyWhenBucketExists ==
    /\ Positions(IsPut) # {} => provisionCalls = 1
    /\ objects # {} => bucketExists
    /\ \A k \in 1..Len(saveCalls) :
          saveCalls[k].ret = TRUE =>
              /\ bucketExists
              /\ \E o \in objects : o.Key[2] = saveCalls[k].city

\* The probe failed, the create call failed, and a put_object call was issued
\* on the missing bucket and failed
C9_Witness ==
    /\ ~bucketExists
    /\ \E j \in Positions(IsCreate) : ~s3calls[j].ok
    /\ \E j \in Positions(IsPut) : ~s3calls[j].ok
    /\ \E k \in 1..Len(saveCalls) : saveCalls[k].ret = FALSE

\* C10: with the bucket name absent or empty no head_bucket, create_bucket or
\* put_object call is made, and a run that completes has fetched every city.
C10_NoBucketNameNoStorageCall ==
    (bucket_name = Unset \/ bucket_name = "") =>
        /\ Positions(IsHead) = {}
        /\ Positions(IsCreate) = {}
        /\ Positions(IsPut) = {}
        /\ pc = "done" => fetchStarted = cities

====
